---- MODULE Spec2Model ----
(***************************************************************************)
(* Countdown timer of rust_slint_timer: the TimerState record              *)
(* (src/timer/state.rs), the validation function and the TimerLogic        *)
(* controller (src/timer/logic.rs).                                        *)
(*                                                                         *)
(* The controller's two fields are the variables state and callback.  The  *)
(* remaining variables describe the call that returned last (its name,     *)
(* arguments, result, the state it started from and the snapshots it       *)
(* handed to the observer) and the call sequences some properties are      *)
(* about.                                                                  *)
(***************************************************************************)
EXTENDS Integers, Sequences, FiniteSets, TLC

VARIABLES
    state,       \* TimerLogic.state : TimerState
    callback,    \* TimerLogic.callback is Some(_) (TRUE) or None (FALSE)
    op,          \* name of the call that returned last
    args,        \* <<h, m, s>> of that call when it is set_time / with_time
    ret,         \* what that call returned
    pre,         \* TimerLogic.state when that call was entered
    notified,    \* snapshots passed to the observer during that call
    configured,  \* <<h, m, s>> of the last successful with_time / set_time
    streak,      \* ticks issued back to back after "configure, start"
                 \* (phase "ticking"; "armed" after the configuration)
    resume,      \* progress of a "pause, start, tick" sequence
    prev,        \* name and result of the call that returned before the
                 \* last one
    ui,          \* properties of the TimerWindow that main reads and writes
    raw          \* raw signed values the last host handler was given or
                 \* read from the window

vars == <<state, callback, op, args, ret, pre, notified, configured,
          streak, resume, prev, ui, raw>>

----------------------------------------------------------------------------
(* Bounds of the exploration *)

\* second values 0..MaxSec are offered to set_time besides the boundary ones
MaxSec == 2

\* a countdown is followed for at most MaxTicks accepted ticks
MaxTicks == 3

(* Limits written in validate_time *)
MAX_HOURS == 23
MAX_MINUTES == 59
MAX_SECONDS == 59

HourInputs == {0, MAX_HOURS, MAX_HOURS + 1}
MinuteInputs == {0, MAX_MINUTES, MAX_MINUTES + 1}
SecondInputs == (0..MaxSec) \cup {MAX_SECONDS, MAX_SECONDS + 1}

----------------------------------------------------------------------------
(* src/timer/state.rs *)

TotalSeconds(h, m, s) == h * 3600 + m * 60 + s

TimerState_default ==
    [hours |-> 0, minutes |-> 0, seconds |-> 0, remaining_seconds |-> 0,
     is_running |-> FALSE, is_completed |-> FALSE]

TimerState_new(h, m, s) ==
    [hours |-> h, minutes |-> m, seconds |-> s,
     remaining_seconds |-> TotalSeconds(h, m, s),
     is_running |-> FALSE, is_completed |-> FALSE]

TimerState_reset_keeps_completed(st) ==
    [st EXCEPT !.remaining_seconds =
                   TotalSeconds(st.hours, st.minutes, st.seconds),
               !.is_running = FALSE]

TimerState_reset_adds_total(st) ==
    [st EXCEPT !.remaining_seconds =
                   @ + TotalSeconds(st.hours, st.minutes, st.seconds),
               !.is_running = FALSE,
               !.is_completed = FALSE]

TimerState_reset(st) ==
    [st EXCEPT !.remaining_seconds =
                   TotalSeconds(st.hours, st.minutes, st.seconds),
               !.is_running = FALSE,
               !.is_completed = FALSE]

----------------------------------------------------------------------------
(* src/timer/logic.rs *)

\* The Err strings differ in the field they name; the result is modelled by
\* that name.
validate_time_minutes_first(h, m, s) ==
    IF m > MAX_MINUTES THEN "ErrMinutes"
    ELSE IF h > MAX_HOURS THEN "ErrHours"
    ELSE IF s > MAX_SECONDS THEN "ErrSeconds"
    ELSE IF h = 0 /\ m = 0 /\ s = 0 THEN "ErrZero"
    ELSE "Ok"

validate_time_allows_zero(h, m, s) ==
    IF h > MAX_HOURS THEN "ErrHours"
    ELSE IF m > MAX_MINUTES THEN "ErrMinutes"
    ELSE IF s > MAX_SECONDS THEN "ErrSeconds"
    ELSE "Ok"

validate_time_hours_off_by_one(h, m, s) ==
    IF h > MAX_HOURS + 1 THEN "ErrHours"
    ELSE IF m > MAX_MINUTES THEN "ErrMinutes"
    ELSE IF s > MAX_SECONDS THEN "ErrSeconds"
    ELSE IF h = 0 /\ m = 0 /\ s = 0 THEN "ErrZero"
    ELSE "Ok"

validate_time(h, m, s) ==
    IF h > MAX_HOURS THEN "ErrHours"
    ELSE IF m > MAX_MINUTES THEN "ErrMinutes"
    ELSE IF s > MAX_SECONDS THEN "ErrSeconds"
    ELSE IF h = 0 /\ m = 0 /\ s = 0 THEN "ErrZero"
    ELSE "Ok"

\* notify_state_change: the observer, when there is one, gets a clone of the
\* state; log is what it has been given so far in the current call.
notify_state_change(cb, st, log) ==
    IF cb THEN Append(log, st) ELSE log

\* Each method is a function of the controller's fields (and arguments) that
\* yields the new state, the returned value and the observer's log.
Outcome(st, r, log) == [state |-> st, ret |-> r, notified |-> log]

set_time_assigns_before_validating(st, cb, h, m, s) ==
    IF validate_time(h, m, s) = "Ok"
    THEN Outcome(TimerState_new(h, m, s), "Ok",
                 notify_state_change(cb, TimerState_new(h, m, s), <<>>))
    ELSE Outcome(TimerState_new(h, m, s), validate_time(h, m, s), <<>>)

set_time_keeps_flags(st, cb, h, m, s) ==
    IF validate_time(h, m, s) # "Ok"
    THEN Outcome(st, validate_time(h, m, s), <<>>)
    ELSE LET st1 == [st EXCEPT !.hours = h, !.minutes = m, !.seconds = s,
                               !.remaining_seconds = TotalSeconds(h, m, s)]
         IN  Outcome(st1, "Ok", notify_state_change(cb, st1, <<>>))

set_time(st, cb, h, m, s) ==
    IF validate_time(h, m, s) # "Ok"
    THEN Outcome(st, validate_time(h, m, s), <<>>)
    ELSE Outcome(TimerState_new(h, m, s), "Ok",
                 notify_state_change(cb, TimerState_new(h, m, s), <<>>))

start_timer_restarts(st, cb) ==
    IF ~st.is_completed /\ st.remaining_seconds > 0
    THEN LET st1 == [TimerState_reset(st) EXCEPT !.is_running = TRUE]
         IN  Outcome(st1, "unit", notify_state_change(cb, st1, <<>>))
    ELSE Outcome(st, "unit", <<>>)

start_timer_ignores_completed(st, cb) ==
    IF st.remaining_seconds > 0 \/ st.is_completed
    THEN LET st1 == [st EXCEPT !.is_running = TRUE, !.is_completed = FALSE]
         IN  Outcome(st1, "unit", notify_state_change(cb, st1, <<>>))
    ELSE Outcome(st, "unit", <<>>)

start_timer_skips_when_running(st, cb) ==
    IF ~st.is_completed /\ st.remaining_seconds > 0 /\ ~st.is_running
    THEN LET st1 == [st EXCEPT !.is_running = TRUE, !.is_completed = FALSE]
         IN  Outcome(st1, "unit", notify_state_change(cb, st1, <<>>))
    ELSE Outcome(st, "unit", <<>>)

start_timer_allows_zero(st, cb) ==
    IF ~st.is_completed
    THEN LET st1 == [st EXCEPT !.is_running = TRUE, !.is_completed = FALSE]
         IN  Outcome(st1, "unit", notify_state_change(cb, st1, <<>>))
    ELSE Outcome(st, "unit", <<>>)

start_timer(st, cb) ==
    IF ~st.is_completed /\ st.remaining_seconds > 0
    THEN LET st1 == [st EXCEPT !.is_running = TRUE, !.is_completed = FALSE]
         IN  Outcome(st1, "unit", notify_state_change(cb, st1, <<>>))
    ELSE Outcome(st, "unit", <<>>)

pause_timer_always_notifies(st, cb) ==
    LET st1 == [st EXCEPT !.is_running = FALSE]
    IN  Outcome(st1, "unit", notify_state_change(cb, st1, <<>>))

pause_timer_toggles(st, cb) ==
    LET st1 == [st EXCEPT !.is_running = ~st.is_running]
    IN  Outcome(st1, "unit", notify_state_change(cb, st1, <<>>))

pause_timer(st, cb) ==
    IF st.is_running
    THEN LET st1 == [st EXCEPT !.is_running = FALSE]
         IN  Outcome(st1, "unit", notify_state_change(cb, st1, <<>>))
    ELSE Outcome(st, "unit", <<>>)

reset_timer(st, cb) ==
    LET st1 == TimerState_reset(st)
    IN  Outcome(st1, "unit", notify_state_change(cb, st1, <<>>))

tick_keeps_running(st, cb) ==
    IF ~st.is_running \/ st.is_completed
    THEN Outcome(st, "false", <<>>)
    ELSE IF st.remaining_seconds > 0
    THEN LET st1  == [st EXCEPT !.remaining_seconds = @ - 1]
             log1 == notify_state_change(cb, st1, <<>>)
         IN  IF st1.remaining_seconds = 0
             THEN LET st2 == [st1 EXCEPT !.is_completed = TRUE]
                  IN  Outcome(st2, "true", notify_state_change(cb, st2, log1))
             ELSE Outcome(st1, "false", log1)
    ELSE Outcome(st, "false", <<>>)

tick_true_on_every_decrement(st, cb) ==
    IF ~st.is_running \/ st.is_completed
    THEN Outcome(st, "false", <<>>)
    ELSE IF st.remaining_seconds > 0
    THEN LET st1  == [st EXCEPT !.remaining_seconds = @ - 1]
             log1 == notify_state_change(cb, st1, <<>>)
         IN  IF st1.remaining_seconds = 0
             THEN LET st2 == [st1 EXCEPT !.is_running = FALSE,
                                         !.is_completed = TRUE]
                  IN  Outcome(st2, "true", notify_state_change(cb, st2, log1))
             ELSE Outcome(st1, "true", log1)
    ELSE Outcome(st, "false", <<>>)

tick_ignores_pause(st, cb) ==
    IF st.is_completed
    THEN Outcome(st, "false", <<>>)
    ELSE IF st.remaining_seconds > 0
    THEN LET st1  == [st EXCEPT !.remaining_seconds = @ - 1]
             log1 == notify_state_change(cb, st1, <<>>)
         IN  IF st1.remaining_seconds = 0
             THEN LET st2 == [st1 EXCEPT !.is_running = FALSE,
                                         !.is_completed = TRUE]
                  IN  Outcome(st2, "true", notify_state_change(cb, st2, log1))
             ELSE Outcome(st1, "false", log1)
    ELSE Outcome(st, "false", <<>>)

tick_completes_late(st, cb) ==
    IF ~st.is_running \/ st.is_completed
    THEN Outcome(st, "false", <<>>)
    ELSE IF st.remaining_seconds > 0
    THEN LET st1 == [st EXCEPT !.remaining_seconds = @ - 1]
         IN  Outcome(st1, "false", notify_state_change(cb, st1, <<>>))
    ELSE LET st2 == [st EXCEPT !.is_running = FALSE, !.is_completed = TRUE]
         IN  Outcome(st2, "true", notify_state_change(cb, st2, <<>>))

tick_single_notification(st, cb) ==
    IF ~st.is_running \/ st.is_completed
    THEN Outcome(st, "false", <<>>)
    ELSE IF st.remaining_seconds > 0
    THEN LET st1 == [st EXCEPT !.remaining_seconds = @ - 1]
         IN  IF st1.remaining_seconds = 0
             THEN LET st2 == [st1 EXCEPT !.is_running = FALSE,
                                         !.is_completed = TRUE]
                  IN  Outcome(st2, "true", notify_state_change(cb, st2, <<>>))
             ELSE Outcome(st1, "false", notify_state_change(cb, st1, <<>>))
    ELSE Outcome(st, "false", <<>>)

tick_notifies_after_flags(st, cb) ==
    IF ~st.is_running \/ st.is_completed
    THEN Outcome(st, "false", <<>>)
    ELSE IF st.remaining_seconds > 0
    THEN LET st1 == [st EXCEPT !.remaining_seconds = @ - 1]
         IN  IF st1.remaining_seconds = 0
             THEN LET st2 == [st1 EXCEPT !.is_running = FALSE,
                                         !.is_completed = TRUE]
                      log2 == notify_state_change(cb, st2, <<>>)
                  IN  Outcome(st2, "true", notify_state_change(cb, st2, log2))
             ELSE Outcome(st1, "false", notify_state_change(cb, st1, <<>>))
    ELSE Outcome(st, "false", <<>>)

tick_stops_at_one(st, cb) ==
    IF ~st.is_running \/ st.is_completed
    THEN Outcome(st, "false", <<>>)
    ELSE IF st.remaining_seconds > 1
    THEN LET st1 == [st EXCEPT !.remaining_seconds = @ - 1]
         IN  Outcome(st1, "false", notify_state_change(cb, st1, <<>>))
    ELSE Outcome(st, "false", <<>>)

tick(st, cb) ==
    IF ~st.is_running \/ st.is_completed
    THEN Outcome(st, "false", <<>>)
    ELSE IF st.remaining_seconds > 0
    THEN LET st1  == [st EXCEPT !.remaining_seconds = @ - 1]
             log1 == notify_state_change(cb, st1, <<>>)
         IN  IF st1.remaining_seconds = 0
             THEN LET st2 == [st1 EXCEPT !.is_running = FALSE,
                                         !.is_completed = TRUE]
                  IN  Outcome(st2, "true", notify_state_change(cb, st2, log1))
             ELSE Outcome(st1, "false", log1)
    ELSE Outcome(st, "false", <<>>)

----------------------------------------------------------------------------
(* Bookkeeping of call sequences *)

NoArgs == <<>>
NoStreak == [phase |-> "none", ticks |-> 0]
Armed == [phase |-> "armed", ticks |-> 0]
NoResume == [phase |-> "none", at |-> 0]
NoCall == [op |-> "none", ret |-> "unit"]
NoUi == "none"

\* the last call as remembered by the next one: its name and its result,
\* where the kinds of set_time error are not told apart
LastCall ==
    [op |-> op,
     ret |-> IF op = "set_time" /\ ret # "Ok" THEN "Err" ELSE ret]

ConfiguredTotal ==
    IF configured = NoArgs THEN 0
    ELSE TotalSeconds(configured[1], configured[2], configured[3])

Elapsed(st) ==
    TotalSeconds(st.hours, st.minutes, st.seconds) - st.remaining_seconds

Returned(o, name, a) ==
    /\ pre' = state
    /\ op' = name
    /\ args' = a
    /\ state' = o.state
    /\ ret' = o.ret
    /\ notified' = o.notified
    /\ prev' = LastCall
    /\ UNCHANGED <<ui, raw>>

----------------------------------------------------------------------------
(* Construction: TimerLogic::new() or a successful TimerLogic::with_time *)

New ==
    /\ state = TimerState_default
    /\ callback = FALSE
    /\ op = "new"
    /\ args = NoArgs
    /\ ret = "unit"
    /\ pre = state
    /\ notified = <<>>
    /\ configured = NoArgs
    /\ streak = NoStreak
    /\ resume = NoResume
    /\ prev = NoCall

WithTimeOf(h, m, s) ==
        /\ validate_time(h, m, s) = "Ok"
        /\ state = TimerState_new(h, m, s)
        /\ callback = FALSE
        /\ op = "with_time"
        /\ args = <<h, m, s>>
        /\ ret = "Ok"
        /\ pre = state
        /\ notified = <<>>
        /\ configured = <<h, m, s>>
        /\ streak = Armed
        /\ resume = NoResume
        /\ prev = NoCall

WithTime ==
    \E h \in HourInputs, m \in MinuteInputs, s \in SecondInputs :
        WithTimeOf(h, m, s)

Init == (New \/ WithTime) /\ ui = NoUi /\ raw = NoArgs

----------------------------------------------------------------------------
(* Calls *)

SetStateCallback ==
    /\ callback' = TRUE
    /\ pre' = state
    /\ op' = "set_state_callback"
    /\ args' = NoArgs
    /\ ret' = "unit"
    /\ notified' = <<>>
    /\ prev' = LastCall
    /\ UNCHANGED <<ui, raw>>
    /\ UNCHANGED <<state, configured, streak, resume>>

SetTimeOf(h, m, s) ==
        LET o == set_time(state, callback, h, m, s)
        IN  /\ Returned(o, "set_time", <<h, m, s>>)
            /\ configured' = IF o.ret = "Ok" THEN <<h, m, s>> ELSE configured
            /\ streak' = IF o.ret = "Ok" THEN Armed ELSE NoStreak
            /\ resume' = NoResume
            /\ UNCHANGED callback

SetTime ==
    \E h \in HourInputs, m \in MinuteInputs, s \in SecondInputs :
        SetTimeOf(h, m, s)

StartTimer ==
    /\ Returned(start_timer(state, callback), "start_timer", NoArgs)
    /\ streak' = IF streak = Armed
                 THEN [phase |-> "ticking", ticks |-> 0]
                 ELSE NoStreak
    /\ resume' = IF resume.phase = "paused"
                 THEN [resume EXCEPT !.phase = "resumed"]
                 ELSE NoResume
    /\ UNCHANGED <<callback, configured>>

PauseTimer ==
    /\ Returned(pause_timer(state, callback), "pause_timer", NoArgs)
    /\ streak' = NoStreak
    /\ resume' = [phase |-> "paused", at |-> state.remaining_seconds]
    /\ UNCHANGED <<callback, configured>>

ResetTimer ==
    /\ Returned(reset_timer(state, callback), "reset_timer", NoArgs)
    /\ streak' = NoStreak
    /\ resume' = NoResume
    /\ UNCHANGED <<callback, configured>>

Tick ==
    /\ (state.is_running /\ ~state.is_completed /\ state.remaining_seconds > 0)
           => Elapsed(state) < MaxTicks
    /\ Returned(tick(state, callback), "tick", NoArgs)
    /\ streak' = IF streak.phase # "ticking" THEN NoStreak
                 ELSE IF streak.ticks <= ConfiguredTotal
                 THEN [streak EXCEPT !.ticks = @ + 1]
                 ELSE streak
    /\ resume' = IF resume.phase = "resumed"
                 THEN [resume EXCEPT !.phase = "ticked"]
                 ELSE NoResume
    /\ UNCHANGED <<callback, configured>>

Next ==
    \/ SetStateCallback
    \/ SetTime
    \/ StartTimer
    \/ PauseTimer
    \/ ResetTimer
    \/ Tick

Spec == Init /\ [][Next]_vars

----------------------------------------------------------------------------
(* The countdown under the host's ticker.  main starts a repeated one-second
   timer that calls tick for as long as the process lives, so a tick that
   can change the state is eventually issued.  The durations offered here
   are short enough for every countdown to be followed to its end. *)

ShortSeconds ==
    (0..(IF MaxSec < MaxTicks THEN MaxSec ELSE MaxTicks))
        \cup {MAX_SECONDS + 1}
ShortHours == {0, MAX_HOURS + 1}
ShortMinutes == {0, MAX_MINUTES + 1}

ShortWithTime ==
    \E h \in ShortHours, m \in ShortMinutes, s \in ShortSeconds :
        WithTimeOf(h, m, s)

ShortSetTime ==
    \E h \in ShortHours, m \in ShortMinutes, s \in ShortSeconds :
        SetTimeOf(h, m, s)

LiveInit == (New \/ ShortWithTime) /\ ui = NoUi /\ raw = NoArgs

LiveNext ==
    \/ SetStateCallback
    \/ ShortSetTime
    \/ StartTimer
    \/ PauseTimer
    \/ ResetTimer
    \/ Tick

LiveSpec == LiveInit /\ [][LiveNext]_vars /\ WF_vars(Tick)

----------------------------------------------------------------------------
(* src/main.rs: the window's handlers around one TimerLogic *)

\* "00:05:00", the display main sets before any handler runs; 0, 5, 0 are
\* the inputs it sets
DEFAULT_MINUTES == 5

\* x as u32 for an i32 x.  A negative x becomes 2^32 + x, which lies above
\* 2^31 - 1, the largest integer the checker holds; it is represented by
\* that largest integer.  The handlers only hand the value to set_time,
\* which compares it with 23 and 59 and rejects it.
U32_WRAPPED == 2147483647

as_u32(x) == IF x < 0 THEN U32_WRAPPED ELSE x

\* format!("{:02}", n): the decimal digits of n, at least two of them
DigitChars == <<"0", "1", "2", "3", "4", "5", "6", "7", "8", "9">>

RECURSIVE Decimal(_)
Decimal(n) ==
    IF n < 10 THEN <<DigitChars[n + 1]>>
    ELSE Decimal(n \div 10) \o <<DigitChars[(n % 10) + 1]>>

Pad2(n) == IF n < 10 THEN <<"0">> \o Decimal(n) ELSE Decimal(n)

format_remaining_time(st) ==
    Pad2(st.remaining_seconds \div 3600) \o <<":">>
        \o Pad2((st.remaining_seconds % 3600) \div 60) \o <<":">>
        \o Pad2(st.remaining_seconds % 60)

InitialUi ==
    [input_hours |-> 0, input_minutes |-> DEFAULT_MINUTES, input_seconds |-> 0,
     display_time |-> <<"0", "0", ":", "0", "5", ":", "0", "0">>,
     is_running |-> FALSE, is_completed |-> FALSE]

\* A handler yields the controller's new state, the arguments and result of
\* the set_time call it made (NoArgs when it made none), the observer's
\* log and the window's new properties.
HostOutcome(st, a, r, log, w) ==
    [state |-> st, args |-> a, ret |-> r, notified |-> log, ui |-> w]

time_input_changed(st, cb, w, h, m, s) ==
    LET h1 == IF h < 0 THEN 0 ELSE as_u32(h)
        m1 == IF m < 0 THEN 0 ELSE as_u32(m)
        s1 == IF s < 0 THEN 0 ELSE as_u32(s)
        o  == set_time(st, cb, h1, m1, s1)
    IN  IF o.ret = "Ok"
        THEN HostOutcome(o.state, <<h1, m1, s1>>, o.ret, o.notified,
                 [w EXCEPT !.display_time = format_remaining_time(o.state),
                           !.is_completed = FALSE])
        ELSE HostOutcome(o.state, <<h1, m1, s1>>, o.ret, o.notified, w)

start_pause_clicked_resumes(st, cb, w) ==
    IF st.is_running
    THEN LET o == pause_timer(st, cb)
         IN  HostOutcome(o.state, NoArgs, "unit", o.notified,
                 [w EXCEPT !.is_running = o.state.is_running,
                           !.is_completed = o.state.is_completed])
    ELSE IF ~st.is_completed
            /\ st.remaining_seconds > 0
            /\ st.remaining_seconds
                   < TotalSeconds(st.hours, st.minutes, st.seconds)
    THEN LET o == start_timer(st, cb)
         IN  HostOutcome(o.state, NoArgs, "unit", o.notified,
                 [w EXCEPT !.is_running = o.state.is_running,
                           !.is_completed = o.state.is_completed])
    ELSE LET h1 == as_u32(w.input_hours)
             m1 == as_u32(w.input_minutes)
             s1 == as_u32(w.input_seconds)
             o  == set_time(st, cb, h1, m1, s1)
         IN  IF o.ret = "Ok"
             THEN LET o2 == start_timer(o.state, cb)
                  IN  HostOutcome(o2.state, <<h1, m1, s1>>, o.ret,
                          o.notified \o o2.notified,
                          [w EXCEPT !.display_time =
                                        format_remaining_time(o.state),
                                    !.is_running = o2.state.is_running,
                                    !.is_completed = o2.state.is_completed])
             ELSE HostOutcome(o.state, <<h1, m1, s1>>, o.ret, o.notified, w)

start_pause_clicked(st, cb, w) ==
    IF st.is_running
    THEN LET o == pause_timer(st, cb)
         IN  HostOutcome(o.state, NoArgs, "unit", o.notified,
                 [w EXCEPT !.is_running = o.state.is_running,
                           !.is_completed = o.state.is_completed])
    ELSE LET h1 == as_u32(w.input_hours)
             m1 == as_u32(w.input_minutes)
             s1 == as_u32(w.input_seconds)
             o  == set_time(st, cb, h1, m1, s1)
         IN  IF o.ret = "Ok"
             THEN LET o2 == start_timer(o.state, cb)
                  IN  HostOutcome(o2.state, <<h1, m1, s1>>, o.ret,
                          o.notified \o o2.notified,
                          [w EXCEPT !.display_time =
                                        format_remaining_time(o.state),
                                    !.is_running = o2.state.is_running,
                                    !.is_completed = o2.state.is_completed])
             ELSE HostOutcome(o.state, <<h1, m1, s1>>, o.ret, o.notified, w)

reset_clicked(st, cb, w) ==
    LET o == reset_timer(st, cb)
    IN  HostOutcome(o.state, NoArgs, "unit", o.notified,
            [w EXCEPT !.display_time = format_remaining_time(o.state),
                      !.is_running = o.state.is_running,
                      !.is_completed = o.state.is_completed])

timer_fired(st, cb, w) ==
    LET o == tick(st, cb)
    IN  HostOutcome(o.state, NoArgs, o.ret, o.notified,
            [w EXCEPT !.display_time = format_remaining_time(o.state),
                      !.is_running = o.state.is_running,
                      !.is_completed = o.state.is_completed])

\* Raw values the window can hold or hand over
RawHours == {-1, 0}
RawMinutes == {0, DEFAULT_MINUTES}
RawSeconds == {-1} \cup (0..MaxSec)

\* What a handler leaves behind; prev is not kept across handlers.
Handled(o, name, r) ==
    /\ pre' = state
    /\ op' = name
    /\ raw' = r
    /\ state' = o.state
    /\ args' = o.args
    /\ ret' = o.ret
    /\ notified' = o.notified
    /\ ui' = o.ui
    /\ configured' = IF o.args # NoArgs /\ o.ret = "Ok"
                     THEN o.args
                     ELSE configured
    /\ streak' = NoStreak
    /\ resume' = NoResume
    /\ UNCHANGED <<callback, prev>>

HostInit == New /\ ui = InitialUi /\ raw = NoArgs

\* the user edits the input fields
InputEdited ==
    \E h \in RawHours, m \in RawMinutes, s \in RawSeconds :
        /\ ui' = [ui EXCEPT !.input_hours = h, !.input_minutes = m,
                            !.input_seconds = s]
        /\ UNCHANGED <<state, callback, op, args, ret, pre, notified,
                       configured, streak, resume, prev, raw>>

TimeInputChanged ==
    \E h \in RawHours, m \in RawMinutes, s \in RawSeconds :
        Handled(time_input_changed(state, callback, ui, h, m, s),
                "time_input_changed", <<h, m, s>>)

StartPauseClicked ==
    Handled(start_pause_clicked(state, callback, ui), "start_pause_clicked",
            IF state.is_running THEN NoArgs
            ELSE <<ui.input_hours, ui.input_minutes, ui.input_seconds>>)

ResetClicked ==
    Handled(reset_clicked(state, callback, ui), "reset_clicked", NoArgs)

TimerFired ==
    /\ (state.is_running /\ ~state.is_completed /\ state.remaining_seconds > 0)
           => Elapsed(state) < MaxTicks
    /\ Handled(timer_fired(state, callback, ui), "timer_fired", NoArgs)

HostNext ==
    \/ InputEdited
    \/ TimeInputChanged
    \/ StartPauseClicked
    \/ ResetClicked
    \/ TimerFired

HostSpec == HostInit /\ [][HostNext]_vars

----------------------------------------------------------------------------
(* Properties *)

Calls == {"set_time", "start_timer", "pause_timer", "reset_timer", "tick"}
Errors == {"ErrHours", "ErrMinutes", "ErrSeconds", "ErrZero"}

\* C1: is_running and is_completed are never both true.
C1_NeverRunningAndCompleted ==
    ~(state.is_running /\ state.is_completed)

C1_Witness ==
    /\ op = "tick"
    /\ pre.is_running
    /\ state.is_completed

\* C2: a set_time whose arguments fail validation returns an error and
\* leaves every field of the state as it was before the call.
C2_FailedSetTimeChangesNothing ==
    (/\ op = "set_time"
     /\ \/ args[1] > 23
        \/ args[2] > 59
        \/ args[3] > 59
        \/ args = <<0, 0, 0>>)
    => ret \in Errors /\ state = pre

C2_Witness ==
    /\ op = "set_time"
    /\ ret \in Errors
    /\ pre.is_completed
    /\ pre.remaining_seconds = 0

\* C3: validate_time reports the first failing rule in the order hours,
\* minutes, seconds, zero duration, and succeeds for exactly the inputs
\* within range that are not all zero.
C3_ValidationOrder ==
    op = "set_time" =>
        LET h == args[1]
            m == args[2]
            s == args[3]
        IN  /\ h > 23 => ret = "ErrHours"
            /\ (h <= 23 /\ m > 59) => ret = "ErrMinutes"
            /\ (h <= 23 /\ m <= 59 /\ s > 59) => ret = "ErrSeconds"
            /\ (h = 0 /\ m = 0 /\ s = 0) => ret = "ErrZero"
            /\ ret = "Ok" <=> /\ h \in 0..23
                              /\ m \in 0..59
                              /\ s \in 0..59
                              /\ ~(h = 0 /\ m = 0 /\ s = 0)

C3_Witness ==
    /\ op = "set_time"
    /\ args[1] > 23
    /\ args[2] > 59
    /\ args[3] > 59
    /\ ret = "ErrHours"

\* C4: tick returns true exactly when the call took a running,
\* uncompleted timer with one second left to the completed state; every
\* other tick returns false.
C4_TickReturnsTrueIffCompleting ==
    op = "tick" =>
        /\ ret \in {"true", "false"}
        /\ ret = "true" <=> /\ pre.is_running
                            /\ ~pre.is_completed
                            /\ pre.remaining_seconds = 1
                            /\ ~state.is_running
                            /\ state.is_completed
                            /\ state.remaining_seconds = 0

C4_Witness ==
    /\ op = "tick"
    /\ ret = "true"
    /\ pre.remaining_seconds = 1

\* C5 as stated: remaining_seconds decreases only in a tick accepted while
\* running, then by exactly 1, and increases only in a successful set_time
\* or a reset_timer; the other calls leave it unchanged and it never goes
\* below 0.
C5_Unchanged ==
    (\/ op \in {"start_timer", "pause_timer"}
     \/ op = "set_time" /\ ret # "Ok"
     \/ op = "tick" /\ ~(pre.is_running /\ ~pre.is_completed))
    => state.remaining_seconds = pre.remaining_seconds

C5_Increase ==
    state.remaining_seconds > pre.remaining_seconds
    => \/ op = "reset_timer"
       \/ op = "set_time" /\ ret = "Ok"

C5_Original ==
    /\ state.remaining_seconds < pre.remaining_seconds
       => /\ op = "tick"
          /\ pre.is_running
          /\ state.remaining_seconds = pre.remaining_seconds - 1
    /\ C5_Increase
    /\ C5_Unchanged
    /\ state.remaining_seconds >= 0

\* C5 amended: remaining_seconds decreases only in a tick accepted while
\* running, then by exactly 1, or in a successful set_time, which replaces
\* it by the new total; it increases only in a successful set_time or a
\* reset_timer; the other calls leave it unchanged and it never goes
\* below 0.
C5_RemainingChanges ==
    /\ state.remaining_seconds < pre.remaining_seconds
       => \/ /\ op = "tick"
             /\ pre.is_running
             /\ state.remaining_seconds = pre.remaining_seconds - 1
          \/ /\ op = "set_time"
             /\ ret = "Ok"
             /\ state.remaining_seconds
                    = TotalSeconds(args[1], args[2], args[3])
    /\ C5_Increase
    /\ C5_Unchanged
    /\ state.remaining_seconds >= 0

C5_Witness ==
    /\ op = "set_time"
    /\ ret = "Ok"
    /\ state.remaining_seconds < pre.remaining_seconds

\* C6: after a successful configuration to N seconds followed by start,
\* N consecutive ticks return false N-1 times and then true, leaving the
\* timer completed, not running, with nothing remaining; one more tick
\* returns false and changes nothing.
C6_CountdownToCompletion ==
    (op = "tick" /\ streak.phase = "ticking") =>
        /\ streak.ticks >= 1
        /\ streak.ticks < ConfiguredTotal
           => /\ ret = "false"
              /\ state.is_running
              /\ ~state.is_completed
              /\ state.remaining_seconds = ConfiguredTotal - streak.ticks
        /\ streak.ticks = ConfiguredTotal
           => /\ ret = "true"
              /\ ~state.is_running
              /\ state.is_completed
              /\ state.remaining_seconds = 0
        /\ streak.ticks > ConfiguredTotal
           => /\ ret = "false"
              /\ state = pre
              /\ ~state.is_running
              /\ state.is_completed
              /\ state.remaining_seconds = 0

C6_Witness ==
    /\ op = "tick"
    /\ ConfiguredTotal >= 2
    /\ streak.phase = "ticking"
    /\ streak.ticks = ConfiguredTotal + 1

\* C7: a tick while the timer is not running returns false and changes
\* nothing; after pause_timer and start_timer the next tick yields the
\* remaining time the timer had when paused, minus 1.
C7_PauseFreezesCountdown ==
    /\ (op = "tick" /\ ~pre.is_running) => (ret = "false" /\ state = pre)
    /\ (resume.phase = "ticked" /\ resume.at > 0)
       => state.remaining_seconds = resume.at - 1

C7_Witness ==
    /\ resume.phase = "ticked"
    /\ resume.at > 0
    /\ resume.at < ConfiguredTotal
    /\ state.remaining_seconds = resume.at - 1

\* C8: with an observer registered, a call that changes the state invokes
\* the observer once, and the tick that decrements to 0 and completes
\* invokes it twice.
C8_ObserverCount ==
    (callback /\ op \in Calls /\ state # pre) =>
        Len(notified) = IF /\ op = "tick"
                           /\ state.remaining_seconds = 0
                           /\ state.is_completed
                        THEN 2
                        ELSE 1

C8_Witness ==
    /\ callback
    /\ op = "tick"
    /\ state.is_completed
    /\ Len(notified) = 2

\* C9: once configured to (h, m, s), reset_timer yields
\* remaining_seconds = h*3600 + m*60 + s with both flags false, whatever
\* calls other than a successful set_time came in between.
C9_ResetRestoresConfiguredDuration ==
    (op = "reset_timer" /\ configured # NoArgs) =>
        /\ state.remaining_seconds
               = configured[1] * 3600 + configured[2] * 60 + configured[3]
        /\ ~state.is_running
        /\ ~state.is_completed

C9_Witness ==
    /\ op = "reset_timer"
    /\ configured # NoArgs
    /\ pre.is_completed
    /\ state.remaining_seconds > 0

\* C10: on a controller configured at least once, remaining_seconds = 0
\* exactly when the timer is completed and not running, and a call leaves
\* it at 0 after it was positive only if that call is a tick.
C10_ZeroIffCompleted ==
    configured # NoArgs =>
        /\ state.remaining_seconds = 0
               <=> (state.is_completed /\ ~state.is_running)
        /\ (op \in {"with_time", "reset_timer"} \/ (op = "set_time" /\ ret = "Ok"))
               => state.remaining_seconds > 0
        /\ (state.remaining_seconds = 0 /\ pre.remaining_seconds > 0)
               => op = "tick"

C10_Witness ==
    /\ configured # NoArgs
    /\ state.remaining_seconds = 0
    /\ state.is_completed
    /\ op = "tick"

\* C11: a successful set_time(h, m, s) from any state stores (h, m, s),
\* sets remaining_seconds to h*3600 + m*60 + s and clears both flags; a
\* tick that follows it without a start_timer changes nothing.
C11_SetTimeReplacesState ==
    /\ (op = "set_time" /\ ret = "Ok")
       => /\ state.hours = args[1]
          /\ state.minutes = args[2]
          /\ state.seconds = args[3]
          /\ state.remaining_seconds
                 = args[1] * 3600 + args[2] * 60 + args[3]
          /\ ~state.is_running
          /\ ~state.is_completed
    /\ (op = "tick" /\ prev.op = "set_time" /\ prev.ret = "Ok")
       => /\ ret = "false"
          /\ state = pre
          /\ state.remaining_seconds
                 = configured[1] * 3600 + configured[2] * 60 + configured[3]

C11_Witness ==
    /\ op = "set_time"
    /\ ret = "Ok"
    /\ pre.is_running
    /\ pre.remaining_seconds < pre.hours * 3600 + pre.minutes * 60 + pre.seconds

\* C12: start_timer changes the state only when the timer is not
\* completed and has time remaining, and then only sets is_running; on a
\* completed timer or a never-configured controller it changes nothing,
\* so such a timer never becomes running.
C12_StartOnlyWhenEligible ==
    /\ op = "start_timer"
       => IF ~pre.is_completed /\ pre.remaining_seconds > 0
          THEN /\ state.is_running
               /\ state.remaining_seconds = pre.remaining_seconds
               /\ state.hours = pre.hours
               /\ state.minutes = pre.minutes
               /\ state.seconds = pre.seconds
               /\ state.is_completed = pre.is_completed
          ELSE state = pre
    /\ configured = NoArgs => ~state.is_running

C12_Witness ==
    /\ op = "start_timer"
    /\ pre.is_completed
    /\ ~state.is_running

\* C13: reset_timer called twice in a row leaves the state the first call
\* left.
C13_ResetIdempotent ==
    (op = "reset_timer" /\ prev.op = "reset_timer") => state = pre

C13_Witness ==
    /\ op = "reset_timer"
    /\ prev.op = "reset_timer"
    /\ configured # NoArgs
    /\ state.remaining_seconds > 0

\* C14: in the tick that completes the countdown the observer is given
\* first the state with remaining_seconds = 0 and the flags still
\* running / not completed, then the state with remaining_seconds = 0,
\* not running, completed.
C14_CompletionSnapshots ==
    (callback /\ op = "tick" /\ ret = "true") =>
        /\ Len(notified) = 2
        /\ notified[1] = [pre EXCEPT !.remaining_seconds = 0]
        /\ notified[1].is_running
        /\ ~notified[1].is_completed
        /\ notified[2] = state
        /\ notified[2].remaining_seconds = 0
        /\ ~notified[2].is_running
        /\ notified[2].is_completed

C14_Witness ==
    /\ callback
    /\ op = "tick"
    /\ ret = "true"
    /\ Len(notified) = 2
    /\ notified[1].is_running

\* C15: start_timer on a timer that is already running leaves every state
\* value unchanged and still invokes the observer once.
C15_StartWhileRunningNotifies ==
    (callback /\ op = "start_timer" /\ pre.is_running) =>
        /\ state = pre
        /\ notified = <<state>>

C15_Witness ==
    /\ callback
    /\ op = "start_timer"
    /\ pre.is_running
    /\ Len(notified) = 1

\* The calls that their guard turns into a no-op: a failed set_time, a
\* start_timer on a completed or zero-remaining timer, a pause_timer on a
\* timer that is not running, a tick on a timer not running or completed.
C16_Rejected ==
    \/ op = "set_time" /\ ret # "Ok"
    \/ op = "start_timer" /\ (pre.is_completed \/ pre.remaining_seconds = 0)
    \/ op = "pause_timer" /\ ~pre.is_running
    \/ op = "tick" /\ (~pre.is_running \/ pre.is_completed)

\* C16 as stated: the observer is invoked only by calls that change the
\* state; the rejected calls and a reset_timer that leaves the state as it
\* was invoke it zero times.
C16_Original ==
    op \in Calls =>
        /\ Len(notified) > 0 => state # pre
        /\ C16_Rejected => Len(notified) = 0
        /\ (op = "reset_timer" /\ state = pre) => Len(notified) = 0

\* C16 amended: the rejected calls invoke the observer zero times; the
\* observer is invoked without a change of state only by reset_timer, by
\* a successful set_time and by a start_timer on a running timer, each of
\* which invokes it once whether or not the state changes.
C16_RejectedCallsAreSilent ==
    op \in Calls =>
        /\ C16_Rejected => (Len(notified) = 0 /\ state = pre)
        /\ (Len(notified) > 0 /\ state = pre)
           => \/ op = "reset_timer"
              \/ op = "set_time" /\ ret = "Ok"
              \/ op = "start_timer" /\ pre.is_running
        /\ (/\ callback
            /\ \/ op = "reset_timer"
               \/ op = "set_time" /\ ret = "Ok"
               \/ op = "start_timer" /\ pre.is_running)
           => Len(notified) = 1

C16_Witness ==
    /\ callback
    /\ op = "reset_timer"
    /\ state = pre
    /\ Len(notified) = 1

\* C17: a running timer has time remaining, so tick never meets a running
\* timer with remaining_seconds = 0 (the branch that skips the decrement).
C17_RunningHasTimeLeft ==
    /\ state.is_running => state.remaining_seconds > 0
    /\ op = "tick"
       => ~(pre.is_running /\ ~pre.is_completed /\ pre.remaining_seconds = 0)

C17_Witness ==
    /\ op = "tick"
    /\ state.is_running
    /\ state.remaining_seconds = 1

\* C18: a running timer with time remaining, ticked by the host and not
\* paused, reset or reconfigured, eventually is completed, not running,
\* with nothing remaining, by a tick that returns true; the ticks before
\* it, which leave the timer running, return false.
C18_Interfered == op \in {"pause_timer", "reset_timer", "set_time"}

C18_Completed ==
    /\ state.is_completed
    /\ ~state.is_running
    /\ state.remaining_seconds = 0
    /\ op = "tick"
    /\ ret = "true"

C18_RunningTimerCompletes ==
    /\ (state.is_running /\ state.remaining_seconds > 0 /\ ~C18_Interfered)
           ~> (C18_Completed \/ C18_Interfered)
    /\ []((op = "tick" /\ state.is_running) => ret = "false")

C18_Witness ==
    /\ C18_Completed
    /\ streak.phase = "ticking"
    /\ streak.ticks = ConfiguredTotal
    /\ ConfiguredTotal >= 2

\* Under LiveSpec the bound on followed ticks never holds a countdown back.
LiveTickNeverHeld ==
    (state.is_running /\ ~state.is_completed /\ state.remaining_seconds > 0)
        => Elapsed(state) < MaxTicks

\* C19: a completed timer stays as it is under start_timer, pause_timer,
\* tick and failed set_time, every such tick returning false, and ceases
\* to be completed only by reset_timer or a successful set_time;
\* pause_timer changes nothing unless the timer is running, and then only
\* clears is_running.
C19_CompletedIsAbsorbing ==
    /\ (/\ pre.is_completed
        /\ \/ op \in {"start_timer", "pause_timer", "tick"}
           \/ op = "set_time" /\ ret # "Ok")
       => /\ state = pre
          /\ state.is_completed
          /\ ~state.is_running
          /\ state.remaining_seconds = 0
          /\ op = "tick" => ret = "false"
    /\ (pre.is_completed /\ ~state.is_completed)
       => \/ op = "reset_timer"
          \/ op = "set_time" /\ ret = "Ok"
    /\ op = "pause_timer"
       => state = IF pre.is_running
                  THEN [pre EXCEPT !.is_running = FALSE]
                  ELSE pre

C19_Witness ==
    /\ pre.is_completed
    /\ state.is_completed
    /\ op = "start_timer"
    /\ prev.op = "pause_timer"

\* C20: the stored configuration stays within 23:59:59 and changes only in
\* a successful set_time, and 0 <= remaining_seconds <= configured total
\* <= 86399, far below the 32-bit unsigned limit of the arithmetic in
\* TimerState::new and TimerState::reset.
C20_ConfigurationInRange ==
    /\ state.hours \in 0..23
    /\ state.minutes \in 0..59
    /\ state.seconds \in 0..59
    /\ 0 <= state.remaining_seconds
    /\ state.remaining_seconds
           <= state.hours * 3600 + state.minutes * 60 + state.seconds
    /\ state.hours * 3600 + state.minutes * 60 + state.seconds <= 86399
    /\ <<state.hours, state.minutes, state.seconds>>
           # <<pre.hours, pre.minutes, pre.seconds>>
       => (op = "set_time" /\ ret = "Ok")

C20_Witness ==
    /\ op = "set_time"
    /\ ret = "Ok"
    /\ state.hours = 23
    /\ state.minutes = 59
    /\ state.seconds = 59
    /\ state.remaining_seconds = 86399

\* C21: every set_time call the host makes, from the time-input handler
\* and from the start/pause handler alike, passes each raw input with a
\* negative value replaced by 0; raw -1, 5, 0 is configured as 00:05:00.
C21_Clamped(x) == IF x < 0 THEN 0 ELSE x

C21_HostClampsNegatives ==
    (op \in {"time_input_changed", "start_pause_clicked"} /\ args # NoArgs)
    => /\ args = <<C21_Clamped(raw[1]), C21_Clamped(raw[2]),
                   C21_Clamped(raw[3])>>
       /\ raw = <<-1, 5, 0>>
          => /\ ret = "Ok"
             /\ state.hours = 0
             /\ state.minutes = 5
             /\ state.seconds = 0
             /\ state.remaining_seconds = 300

\* C22: a start/pause click on a running timer only pauses it; on a timer
\* that is not running it calls set_time with the current inputs, and then
\* either the call succeeds and the timer runs with the full input
\* duration remaining, or the call fails and the state is unchanged and
\* not running.
C22_ClickRestartsFromInputs ==
    op = "start_pause_clicked" =>
        IF pre.is_running
        THEN /\ args = NoArgs
             /\ state = [pre EXCEPT !.is_running = FALSE]
        ELSE /\ args # NoArgs
             /\ \A i \in 1..3 : raw[i] >= 0 => args[i] = raw[i]
             /\ ret = "Ok"
                => /\ state.is_running
                   /\ ~state.is_completed
                   /\ state.hours = raw[1]
                   /\ state.minutes = raw[2]
                   /\ state.seconds = raw[3]
                   /\ state.remaining_seconds
                          = raw[1] * 3600 + raw[2] * 60 + raw[3]
             /\ ret # "Ok"
                => /\ ret \in Errors
                   /\ state = pre
                   /\ ~state.is_running
             /\ (\A i \in 1..3 : raw[i] >= 0)
                => (ret = "Ok" <=> /\ raw[1] <= 23
                                   /\ raw[2] <= 59
                                   /\ raw[3] <= 59
                                   /\ raw # <<0, 0, 0>>)

C22_Witness ==
    /\ op = "start_pause_clicked"
    /\ ret = "Ok"
    /\ ~pre.is_running
    /\ pre.remaining_seconds > 0
    /\ pre.remaining_seconds
           < pre.hours * 3600 + pre.minutes * 60 + pre.seconds
    /\ state.is_running
    /\ state.remaining_seconds = raw[1] * 3600 + raw[2] * 60 + raw[3]

====
